---- MODULE Spec2Model ----
(***************************************************************************)
(* The analysis pipeline of criterion.rs (src/src/analysis/mod.rs): the    *)
(* group drivers, the common analysis procedure, and the promotion of the  *)
(* artifact directory new/ to base/.  The filesystem under .criterion/ is  *)
(* part of the state; each driver process is a program counter walking the *)
(* statements of common in source order.                                   *)
(*                                                                         *)
(* Measurements are integers: elapsed times are exact multiples of the     *)
(* iteration counts, so elapsed / iters is exact.  Tukey fences are kept   *)
(* multiplied by 8 so that the quartile interpolation (quarters) and the   *)
(* 1.5 * IQR factor (halves) stay integral.                                *)
(***************************************************************************)
EXTENDS Integers, Sequences, FiniteSets, TLC

\* ------------------------------------------------------------------ bounds
MaxRuns == 4          \* runs of common one benchmark program makes, over its starts
MaxFailures == 1      \* IO operations that fail, over the whole behaviour
SampleLen == 4        \* measurements in one sample
PriorRuns == 2        \* earlier runs behind a directory that two programs share
FastTime == 10        \* per-iteration time of an ordinary measurement
SlowTime == 1000      \* per-iteration time of a disturbed measurement

Procs == {1, 2}
\* the inputs handed to a group driver
InputSeq == <<1, 2>>
Inputs == {InputSeq[i] : i \in DOMAIN InputSeq}

\* ------------------------------------------------------------- identities
\* format!("{}/{}", id, input): the group's id joined with the input
GroupId(id, input) == <<id[1], input>>
\* the id handed to a driver by process p (no input joined yet)
TopId(p) == <<p, 0>>
Ids == Procs \X ({0} \cup Inputs)

\* Path::new(".criterion").join(id).join("base") / .join("new")
\* (a base directory that does not depend on the id)
BaseDirShared(id) == <<TopId(1), "base">>
BaseDir(id) == <<id, "base">>
NewDir(id) == <<id, "new">>
Paths == Ids \X {"new", "base"}

\* --------------------------------------------------------------- statistic
Statistics == {"Mean", "Median", "MedianAbsDev", "StdDev", "Slope"}
EmptyMap == [k \in {} |-> 0]

\* ------------------------------------------------------------- filesystem
Files == {"tukey.json", "sample.json", "estimates.json", "change/estimates.json"}
NoData == << <<>>, <<>> >>
NoVal(f) ==
    CASE f = "tukey.json" -> <<0, 0, 0, 0>>
      [] f = "sample.json" -> NoData
      [] f = "estimates.json" -> EmptyMap
      [] OTHER -> [base |-> NoData, new |-> NoData]
NoFile(f) == [run |-> 0, val |-> NoVal(f)]
AbsentDir == [exists |-> FALSE, files |-> [f \in Files |-> NoFile(f)]]
EmptyDir == [exists |-> TRUE, files |-> [f \in Files |-> NoFile(f)]]
HasFile(dir, f) == dir.exists /\ dir.files[f].run # 0
FilesOf(dir) == {f \in Files : HasFile(dir, f)}

\* Path::exists
Exists(f, path) == f[path].exists
\* fs::rmrf: recursive delete
Rmrf(f, path) == [f EXCEPT ![path] = AbsentDir]
\* fs::mv: rename; a destination that exists makes the rename fail
Mv(f, src, dst) ==
    IF f[dst].exists THEN f
    ELSE [f EXCEPT ![dst] = f[src], ![src] = AbsentDir]
\* fs::mkdirp: recursive, idempotent
Mkdirp(f, path) == IF f[path].exists THEN f ELSE [f EXCEPT ![path] = EmptyDir]
\* fs::save into an existing directory
Save(f, path, file, content) == [f EXCEPT ![path].files[file] = content]

\* ---------------------------------------------------------------- samples
Iters == [i \in 1..SampleLen |-> i]
\* the samples a routine yields: steady, or with the last measurement slow
SampleOf(slow) ==
    << Iters,
       [i \in 1..SampleLen |->
            i * (IF slow /\ i = SampleLen THEN SlowTime ELSE FastTime)] >>
Samples == {SampleOf(slow) : slow \in BOOLEAN}

\* iters.iter().zip(times.iter()).map(|(&iters, &elapsed)| elapsed / iters)
Min(a, b) == IF a < b THEN a ELSE b
AvgTimes(iters, times) ==
    [i \in 1..Min(Len(iters), Len(times)) |-> times[i] \div iters[i]]

\* ------------------------------------------------------------- percentiles
RECURSIVE Insert(_, _)
Insert(x, s) ==
    IF s = <<>> THEN <<x>>
    ELSE IF x <= Head(s) THEN <<x>> \o s
    ELSE <<Head(s)>> \o Insert(x, Tail(s))
RECURSIVE Sort(_)
Sort(s) == IF s = <<>> THEN <<>> ELSE Insert(Head(s), Sort(Tail(s)))
\* Sample::percentiles: a sorted copy
PercentilesOf(sample) == Sort(sample)
\* 4 * Percentiles::at(25 * q): linear interpolation between order statistics
Quartile4(sorted, q) ==
    LET rank4 == q * (Len(sorted) - 1)
        k == rank4 \div 4
        r == rank4 % 4
    IN  IF r = 0 THEN 4 * sorted[k + 1]
        ELSE 4 * sorted[k + 1] + r * (sorted[k + 2] - sorted[k + 1])

\* ------------------------------------------------------------------ tukey
\* 8 * (Q1 - 3 IQR, Q1 - 1.5 IQR, Q3 + 1.5 IQR, Q3 + 3 IQR)
Fences8(sample) ==
    LET s == Sort(sample)
        q1 == Quartile4(s, 1)
        q3 == Quartile4(s, 3)
        iqr == q3 - q1
    IN  <<2 * q1 - 6 * iqr, 2 * q1 - 3 * iqr, 2 * q3 + 3 * iqr, 2 * q3 + 6 * iqr>>
Label(x, f) ==
    IF 8 * x < f[1] THEN "LowSevere"
    ELSE IF 8 * x < f[2] THEN "LowMild"
    ELSE IF 8 * x > f[4] THEN "HighSevere"
    ELSE IF 8 * x > f[3] THEN "HighMild"
    ELSE "Normal"
\* tukey::classify: the sample, its fences and one label per measurement
Classify(sample) ==
    LET f == Fences8(sample)
    IN  [sample |-> sample, fences |-> f,
         labels |-> [i \in 1..Len(sample) |-> Label(sample[i], f)]]
NoLabeled == [sample |-> <<>>, fences |-> <<0, 0, 0, 0>>, labels |-> <<>>]
\* LabeledSample::count: (los, lom, normal, him, his)
Count(ls) ==
    LET n(l) == Cardinality({i \in 1..Len(ls.labels) : ls.labels[i] = l})
    IN  <<n("LowSevere"), n("LowMild"), n("Normal"), n("HighMild"), n("HighSevere")>>
\* the measurements labeled Normal, in order
RECURSIVE NormalOnly(_, _)
NormalOnly(sample, labels) ==
    IF sample = <<>> THEN <<>>
    ELSE (IF Head(labels) = "Normal" THEN <<Head(sample)>> ELSE <<>>)
         \o NormalOnly(Tail(sample), Tail(labels))

\* -------------------------------------------------------------- estimates
\* the four statistics bootstrapped by estimates(), in the order of the array
\* (the array without its last entry)
statisticsShort == <<"Mean", "Median", "MedianAbsDev">>
statistics == <<"Mean", "Median", "MedianAbsDev", "StdDev">>
\* keys.zip(values).collect(): pairs up to the shorter length, as a map
ZipCollect(keys, values) ==
    LET n == Min(Len(keys), Len(values))
    IN  [k \in {keys[i] : i \in 1..n} |->
            values[CHOOSE i \in 1..n : keys[i] = k]]
\* BTreeMap::insert
MapInsert(m, k, v) ==
    [x \in DOMAIN m \cup {k} |-> IF x = k THEN v ELSE m[x]]
\* Sample::bootstrap(nresamples, stats): one distribution per statistic of the
\* tuple, each resampled from the sample it is given
Bootstrap4(sample) == [i \in 1..4 |-> [of |-> sample]]
\* Estimate::new(&distributions, &points, cl): one estimate per distribution
EstimateNew(dists, sample) == [k \in DOMAIN dists |-> [of |-> sample]]
\* the sample handed to regression() and to estimates() by common
RegressionArg(d, labeled) == d
\* (the measurements labeled Normal only)
EstimatesArgNormalOnly(avg, labeled) == NormalOnly(labeled.sample, labeled.labels)
EstimatesArg(avg, labeled) == avg

\* ------------------------------------------------------------------ state
VARIABLES
    pc,              \* per process: the statement it is at
    driver,          \* per process: the driver function its benchmark calls
    plotting,        \* per process: criterion.plotting.is_enabled()
    id,              \* per process: the benchmark id handed to common
    todo,            \* per process: the inputs the group loop has not visited
    data,            \* per process: (iters, times) of the current run
    avg_times,       \* per process: the sample of per-iteration times
    labeled_sample,  \* per process: the result of outliers()
    slope,           \* per process: (distribution, estimate) of regression()
    distributions,   \* per process: the Distributions map
    estimates,       \* per process: the Estimates map
    percentiles,     \* per process: the vector built by functions()
    summarized,      \* per process: what summarize() did, "none" before it
    fs,              \* path -> directory, the tree under .criterion/
    trace,           \* per process: the calls made by the current run of common
    measured,        \* per process: what routine.sample returned
    dir0,            \* per process: the benchmark directory when common began
    runs,            \* per id: the runs of common started, the tag of the last
    aborted,         \* per id: some run of common for it did not return
    curOut,          \* per id: what the last run wrote into new/
    prevOut,         \* per id: what the run before it wrote into new/
    started,         \* per process: runs of common begun, over all its starts
    ran,             \* per process: inputs whose pipeline this invocation began
    failure,         \* per process: the IO statement that failed, or "none"
    failures         \* IO failures so far

locals == <<data, avg_times, labeled_sample, slope, distributions, estimates>>
ghosts == <<measured, dir0, runs, aborted, curOut, prevOut>>
config == <<driver, plotting>>
loop == <<id, todo, percentiles, summarized, started, ran>>
errs == <<failure, failures>>
vars == <<pc, locals, ghosts, config, loop, errs, fs, trace>>

Drivers == {"function", "functions", "function_with_inputs",
            "program", "program_with_inputs"}
IsGroup(d) == d \in {"functions", "function_with_inputs", "program_with_inputs"}
\* the runs of common one call of the driver makes
Need(d) == IF IsGroup(d) THEN Len(InputSeq) ELSE 1
NoSlope == [distribution |-> [of |-> NoData], estimate |-> [of |-> NoData]]
NoDir0 == [new |-> AbsentDir, base |-> AbsentDir]

TypeOK ==
    /\ pc \in [Procs -> STRING]
    /\ driver \in [Procs -> Drivers]
    /\ plotting \in [Procs -> BOOLEAN]
    /\ \A p \in Procs : id[p] \in Ids
    /\ \A path \in Paths : fs[path].exists \in BOOLEAN
    /\ failures \in 0..MaxFailures

InitCommon ==
    /\ pc = [p \in Procs |-> "idle"]
    /\ id = [p \in Procs |-> TopId(p)]
    /\ todo = [p \in Procs |-> <<>>]
    /\ data = [p \in Procs |-> NoData]
    /\ avg_times = [p \in Procs |-> <<>>]
    /\ labeled_sample = [p \in Procs |-> NoLabeled]
    /\ slope = [p \in Procs |-> NoSlope]
    /\ distributions = [p \in Procs |-> EmptyMap]
    /\ estimates = [p \in Procs |-> EmptyMap]
    /\ percentiles = [p \in Procs |-> <<>>]
    /\ summarized = [p \in Procs |-> "none"]
    /\ fs = [path \in Paths |-> AbsentDir]
    /\ trace = [p \in Procs |-> <<>>]
    /\ measured = [p \in Procs |-> NoData]
    /\ dir0 = [p \in Procs |-> NoDir0]
    /\ runs = [i \in Ids |-> 0]
    /\ aborted = [i \in Ids |-> FALSE]
    /\ curOut = [i \in Ids |-> AbsentDir]
    /\ prevOut = [i \in Ids |-> AbsentDir]
    /\ started = [p \in Procs |-> 0]
    /\ ran = [p \in Procs |-> {}]
    /\ failure = [p \in Procs |-> "none"]
    /\ failures = 0

\* one benchmark program, started again and again on an empty .criterion/
Init ==
    /\ InitCommon
    /\ driver \in {d \in [Procs -> Drivers] : d[2] = "function"}
    /\ plotting \in {c \in [Procs -> BOOLEAN] : c[2]}

Call(p, what) == trace' = [trace EXCEPT ![p] = @ \o what]
Goto(p, where) == pc' = [pc EXCEPT ![p] = where]
ResetLocals(p) ==
    /\ data' = [data EXCEPT ![p] = NoData]
    /\ avg_times' = [avg_times EXCEPT ![p] = <<>>]
    /\ labeled_sample' = [labeled_sample EXCEPT ![p] = NoLabeled]
    /\ slope' = [slope EXCEPT ![p] = NoSlope]
    /\ distributions' = [distributions EXCEPT ![p] = EmptyMap]
    /\ estimates' = [estimates EXCEPT ![p] = EmptyMap]
\* the tagged content a run writes to a file
Content(p, val) == [run |-> runs[id[p]], val |-> val]
\* fs::save of `val` to .criterion/<id>/new/<file>
SaveNew(p, file, val) ==
    /\ Exists(fs, NewDir(id[p]))
    /\ fs' = Save(fs, NewDir(id[p]), file, Content(p, val))
    /\ curOut' = [curOut EXCEPT ![id[p]].files[file] = Content(p, val)]

\* ---------------------------------------------------------------- drivers
\* the benchmark program is started and calls its driver
Start(p) ==
    /\ pc[p] \in {"idle", "finished", "panicked"}
    /\ started[p] + Need(driver[p]) <= MaxRuns
    /\ ran' = [ran EXCEPT ![p] = {}]
    /\ failure' = [failure EXCEPT ![p] = "none"]
    /\ percentiles' = [percentiles EXCEPT ![p] = <<>>]
    /\ summarized' = [summarized EXCEPT ![p] = "none"]
    /\ id' = [id EXCEPT ![p] = TopId(p)]
    /\ todo' = [todo EXCEPT ![p] = IF IsGroup(driver[p]) THEN InputSeq ELSE <<>>]
    /\ Goto(p, IF IsGroup(driver[p]) THEN "for" ELSE "common")
    /\ UNCHANGED <<locals, ghosts, config, failures, fs, trace, started>>

\* for fun in funs / for input in inputs: the next id, or the loop's end
ForInput(p) ==
    /\ pc[p] = "for"
    /\ IF todo[p] # <<>>
       THEN /\ id' = [id EXCEPT ![p] = GroupId(TopId(p), Head(todo[p]))]
            /\ todo' = [todo EXCEPT ![p] = Tail(@)]
            /\ Goto(p, "common")
       ELSE /\ id' = [id EXCEPT ![p] = TopId(p)]
            /\ UNCHANGED todo
            /\ Goto(p, "summarize")
    /\ UNCHANGED <<locals, ghosts, config, errs, fs, trace,
                   percentiles, summarized, started, ran>>

\* summarize(id, criterion)
Summarize(p) ==
    /\ pc[p] = "summarize"
    /\ summarized' = [summarized EXCEPT ![p] =
                        IF plotting[p] THEN "plot::summarize" ELSE "skipped"]
    /\ Goto(p, "finished")
    /\ UNCHANGED <<locals, ghosts, config, errs, fs, trace,
                   id, todo, percentiles, started, ran>>

\* ----------------------------------------------------------------- common
\* println!("Benchmarking {}", id); routine.sample(criterion)
RoutineSample(p) ==
    /\ pc[p] = "common"
    /\ \E s \in Samples :
        /\ data' = [data EXCEPT ![p] = s]
        /\ measured' = [measured EXCEPT ![p] = s]
    /\ runs' = [runs EXCEPT ![id[p]] = @ + 1]
    /\ prevOut' = [prevOut EXCEPT ![id[p]] = curOut[id[p]]]
    /\ curOut' = [curOut EXCEPT ![id[p]] = AbsentDir]
    /\ dir0' = [dir0 EXCEPT ![p] = [new |-> fs[NewDir(id[p])],
                                    base |-> fs[BaseDir(id[p])]]]
    /\ ran' = [ran EXCEPT ![p] = @ \cup {id[p][2]}]
    /\ started' = [started EXCEPT ![p] = @ + 1]
    /\ trace' = [trace EXCEPT ![p] = <<"routine.sample">>]
    /\ Goto(p, "rename_new_dir_to_base")
    /\ UNCHANGED <<avg_times, labeled_sample, slope, distributions, estimates,
                   aborted, config, errs, fs,
                   id, todo, percentiles, summarized>>

\* (base_dir is never found, so never removed)
RenameBaseExistsNever(p) ==
    /\ pc[p] = "rename_new_dir_to_base"
    /\ Call(p, <<"rename_new_dir_to_base">>)
    /\ Goto(p, "new_exists")
    /\ UNCHANGED <<locals, ghosts, config, loop, errs, fs>>
\* rename_new_dir_to_base: if base_dir.exists()
RenameBaseExists(p) ==
    /\ pc[p] = "rename_new_dir_to_base"
    /\ Call(p, <<"rename_new_dir_to_base">>)
    /\ Goto(p, IF Exists(fs, BaseDir(id[p])) THEN "rmrf" ELSE "new_exists")
    /\ UNCHANGED <<locals, ghosts, config, loop, errs, fs>>

\* { fs::rmrf(&base_dir) }
RmrfBase(p) ==
    /\ pc[p] = "rmrf"
    /\ fs' = Rmrf(fs, BaseDir(id[p]))
    /\ Goto(p, "new_exists")
    /\ UNCHANGED <<locals, ghosts, config, loop, errs, trace>>

\* (new_dir is never found, so never moved)
RenameNewExistsNever(p) ==
    /\ pc[p] = "new_exists"
    /\ Goto(p, "avg_times")
    /\ UNCHANGED <<locals, ghosts, config, loop, errs, fs, trace>>
\* if new_dir.exists()
RenameNewExists(p) ==
    /\ pc[p] = "new_exists"
    /\ Goto(p, IF Exists(fs, NewDir(id[p])) THEN "mv" ELSE "avg_times")
    /\ UNCHANGED <<locals, ghosts, config, loop, errs, fs, trace>>

\* (new_dir is copied to base_dir and stays where it was)
MvNewToBaseCopies(p) ==
    /\ pc[p] = "mv"
    /\ fs' = [fs EXCEPT ![BaseDir(id[p])] = fs[NewDir(id[p])]]
    /\ Goto(p, "avg_times")
    /\ UNCHANGED <<locals, ghosts, config, loop, errs, trace>>
\* { fs::mv(&new_dir, &base_dir) }
MvNewToBase(p) ==
    /\ pc[p] = "mv"
    /\ fs' = Mv(fs, NewDir(id[p]), BaseDir(id[p]))
    /\ Goto(p, "avg_times")
    /\ UNCHANGED <<locals, ghosts, config, loop, errs, trace>>

\* let avg_times = ...; Sample::new(&avg_times)
AvgTimesOf(p) ==
    /\ pc[p] = "avg_times"
    /\ avg_times' = [avg_times EXCEPT ![p] = AvgTimes(data[p][1], data[p][2])]
    /\ Goto(p, "mkdirp")
    /\ UNCHANGED <<data, labeled_sample, slope, distributions, estimates,
                   ghosts, config, loop, errs, fs, trace>>

\* fs::mkdirp(".criterion/{id}/new")
MkdirpNew(p) ==
    /\ pc[p] = "mkdirp"
    /\ fs' = Mkdirp(fs, NewDir(id[p]))
    /\ curOut' = [curOut EXCEPT ![id[p]] = EmptyDir]
    /\ Call(p, <<"fs::mkdirp">>)
    /\ Goto(p, "outliers")
    /\ UNCHANGED <<locals, measured, dir0, runs, aborted, prevOut,
                   config, loop, errs>>

\* outliers(): tukey::classify(avg_times); report::outliers(sample)
Outliers(p) ==
    /\ pc[p] = "outliers"
    /\ labeled_sample' = [labeled_sample EXCEPT ![p] = Classify(avg_times[p])]
    /\ Call(p, <<"tukey::classify", "report::outliers">>)
    /\ Goto(p, "save_tukey")
    /\ UNCHANGED <<data, avg_times, slope, distributions, estimates,
                   ghosts, config, loop, errs, fs>>

\* outliers(): fs::save(&sample.fences(), ".criterion/{id}/new/tukey.json")
SaveTukey(p) ==
    /\ pc[p] = "save_tukey"
    /\ SaveNew(p, "tukey.json", labeled_sample[p].fences)
    /\ Call(p, <<"fs::save tukey.json">>)
    /\ Goto(p, "plot_pdf")
    /\ UNCHANGED <<locals, measured, dir0, runs, aborted, prevOut,
                   config, loop, errs>>

\* if criterion.plotting.is_enabled() { plot::pdf(data, labeled_sample, id) }
PlotPdf(p) ==
    /\ pc[p] = "plot_pdf"
    /\ Call(p, IF plotting[p] THEN <<"plot::pdf">> ELSE <<>>)
    /\ Goto(p, "regression")
    /\ UNCHANGED <<locals, ghosts, config, loop, errs, fs>>

\* regression(): data.bootstrap(...), Slope::fit(data), report::regression
Regression(p) ==
    /\ pc[p] = "regression"
    /\ LET d == RegressionArg(data[p], labeled_sample[p])
       IN  slope' = [slope EXCEPT ![p] =
                        [distribution |-> [of |-> d], estimate |-> [of |-> d]]]
    /\ Call(p, <<"regression", "report::regression">>)
    /\ Goto(p, "plot_regression")
    /\ UNCHANGED <<data, avg_times, labeled_sample, distributions, estimates,
                   ghosts, config, loop, errs, fs>>

\* (the plot is drawn without asking criterion.plotting)
PlotRegressionAlways(p) ==
    /\ pc[p] = "plot_regression"
    /\ Call(p, <<"plot::regression">>)
    /\ Goto(p, "estimates")
    /\ UNCHANGED <<locals, ghosts, config, loop, errs, fs>>
\* regression(): if criterion.plotting.is_enabled() { plot::regression(...) }
PlotRegression(p) ==
    /\ pc[p] = "plot_regression"
    /\ Call(p, IF plotting[p] THEN <<"plot::regression">> ELSE <<>>)
    /\ Goto(p, "estimates")
    /\ UNCHANGED <<locals, ghosts, config, loop, errs, fs>>

\* estimates(): bootstrap the four statistics, zip them with their keys
Estimates(p) ==
    /\ pc[p] = "estimates"
    /\ LET s == EstimatesArg(avg_times[p], labeled_sample[p])
           d == ZipCollect(statistics, Bootstrap4(s))
       IN  /\ distributions' = [distributions EXCEPT ![p] = d]
           /\ estimates' = [estimates EXCEPT ![p] = EstimateNew(d, s)]
    /\ Call(p, <<"estimates", "report::abs">>)
    /\ Goto(p, "insert_slope")
    /\ UNCHANGED <<data, avg_times, labeled_sample, slope,
                   ghosts, config, loop, errs, fs>>

\* estimates.insert(Statistic::Slope, slope);
\* distributions.insert(Statistic::Slope, distribution)
InsertSlope(p) ==
    /\ pc[p] = "insert_slope"
    /\ estimates' = [estimates EXCEPT ![p] = MapInsert(@, "Slope", slope[p].estimate)]
    /\ distributions' = [distributions EXCEPT ![p] =
                            MapInsert(@, "Slope", slope[p].distribution)]
    /\ Goto(p, "plot_abs_distributions")
    /\ UNCHANGED <<data, avg_times, labeled_sample, slope,
                   ghosts, config, loop, errs, fs, trace>>

\* if criterion.plotting.is_enabled() { plot::abs_distributions(...) }
PlotAbsDistributions(p) ==
    /\ pc[p] = "plot_abs_distributions"
    /\ Call(p, IF plotting[p] THEN <<"plot::abs_distributions">> ELSE <<>>)
    /\ Goto(p, "save_sample")
    /\ UNCHANGED <<locals, ghosts, config, loop, errs, fs>>

\* fs::save(&(data.x(), data.y()), ".criterion/{id}/new/sample.json")
SaveSample(p) ==
    /\ pc[p] = "save_sample"
    /\ SaveNew(p, "sample.json", <<data[p][1], data[p][2]>>)
    /\ Call(p, <<"fs::save sample.json">>)
    /\ Goto(p, "save_estimates")
    /\ UNCHANGED <<locals, measured, dir0, runs, aborted, prevOut,
                   config, loop, errs>>

\* fs::save(&estimates, ".criterion/{id}/new/estimates.json")
SaveEstimates(p) ==
    /\ pc[p] = "save_estimates"
    /\ SaveNew(p, "estimates.json", estimates[p])
    /\ Call(p, <<"fs::save estimates.json">>)
    /\ Goto(p, "base_dir_exists")
    /\ UNCHANGED <<locals, measured, dir0, runs, aborted, prevOut,
                   config, loop, errs>>

\* if base_dir_exists(id)
BaseDirExists(p) ==
    /\ pc[p] = "base_dir_exists"
    /\ Goto(p, IF Exists(fs, BaseDir(id[p])) THEN "compare" ELSE "return")
    /\ UNCHANGED <<locals, ghosts, config, loop, errs, fs, trace>>

\* compare::common(id, data, avg_times, &estimates, criterion): loads
\* base/sample.json and saves new/change/estimates.json; a base sample that
\* cannot be loaded skips the comparison
Compare(p) ==
    /\ pc[p] = "compare"
    /\ Call(p, <<"compare::common">>)
    /\ IF HasFile(fs[BaseDir(id[p])], "sample.json")
       THEN SaveNew(p, "change/estimates.json",
                    [base |-> fs[BaseDir(id[p])].files["sample.json"].val,
                     new |-> data[p]])
       ELSE UNCHANGED <<fs, curOut>>
    /\ Goto(p, "return")
    /\ UNCHANGED <<locals, measured, dir0, runs, aborted, prevOut,
                   config, loop, errs>>

\* avg_times.percentiles() is returned; the driver goes on
Return(p) ==
    /\ pc[p] = "return"
    /\ percentiles' = [percentiles EXCEPT ![p] =
                        IF driver[p] = "functions"
                        THEN Append(@, <<id[p], PercentilesOf(avg_times[p])>>)
                        ELSE @]
    /\ ResetLocals(p)
    /\ measured' = [measured EXCEPT ![p] = NoData]
    /\ dir0' = [dir0 EXCEPT ![p] = NoDir0]
    /\ Goto(p, IF IsGroup(driver[p]) THEN "for" ELSE "finished")
    /\ UNCHANGED <<runs, aborted, curOut, prevOut, config, errs, fs, trace,
                   id, todo, summarized, started, ran>>

\* an IO operation of the artifact store fails: the failure is fatal, and
\* common has no error to return, so the thread of the driver unwinds
IoPcs == {"rmrf", "mv", "mkdirp", "save_tukey", "save_sample",
          "save_estimates", "compare"}
IoFail(p) ==
    /\ pc[p] \in IoPcs
    /\ failures < MaxFailures
    /\ failures' = failures + 1
    /\ failure' = [failure EXCEPT ![p] = pc[p]]
    /\ aborted' = [aborted EXCEPT ![id[p]] = TRUE]
    /\ ResetLocals(p)
    /\ measured' = [measured EXCEPT ![p] = NoData]
    /\ dir0' = [dir0 EXCEPT ![p] = NoDir0]
    /\ Goto(p, "panicked")
    /\ UNCHANGED <<runs, curOut, prevOut,
                   config, loop, fs, trace>>

\* the statements of common and of the functions it calls
CommonStep(p) ==
    \/ RoutineSample(p)
    \/ RenameBaseExists(p)
    \/ RmrfBase(p)
    \/ RenameNewExists(p)
    \/ MvNewToBase(p)
    \/ AvgTimesOf(p)
    \/ MkdirpNew(p)
    \/ Outliers(p)
    \/ SaveTukey(p)
    \/ PlotPdf(p)
    \/ Regression(p)
    \/ PlotRegression(p)
    \/ Estimates(p)
    \/ InsertSlope(p)
    \/ PlotAbsDistributions(p)
    \/ SaveSample(p)
    \/ SaveEstimates(p)
    \/ BaseDirExists(p)
    \/ Compare(p)
    \/ Return(p)
    \/ IoFail(p)

\* one benchmark program at a time
Next ==
    \/ Start(1)
    \/ ForInput(1)
    \/ Summarize(1)
    \/ CommonStep(1)
Spec == Init /\ [][Next]_vars

\* ------------------------------------------------- a run of common, alone
\* the benchmark directory of id `i` after common ran on it from start to
\* end with nothing else running: the statements of common in order
OwnPaths(i) == {path \in Paths : path[1] = i}
SoloRun(d, i, tag, s) ==
    LET new == NewDir(i)
        base == BaseDir(i)
        f0 == [path \in Paths |->
                IF path = <<i, "new">> THEN d.new
                ELSE IF path = <<i, "base">> THEN d.base
                ELSE AbsentDir]
        f1 == IF Exists(f0, base) THEN Rmrf(f0, base) ELSE f0
        f2 == IF Exists(f1, new) THEN Mv(f1, new, base) ELSE f1
        f3 == Mkdirp(f2, new)
        avg == AvgTimes(s[1], s[2])
        ls == Classify(avg)
        f4 == Save(f3, new, "tukey.json", [run |-> tag, val |-> ls.fences])
        rd == RegressionArg(s, ls)
        ea == EstimatesArg(avg, ls)
        ds == ZipCollect(statistics, Bootstrap4(ea))
        es == MapInsert(EstimateNew(ds, ea), "Slope", [of |-> rd])
        f5 == Save(f4, new, "sample.json", [run |-> tag, val |-> s])
        f6 == Save(f5, new, "estimates.json", [run |-> tag, val |-> es])
        f7 == IF Exists(f6, base) /\ HasFile(f6[base], "sample.json")
              THEN Save(f6, new, "change/estimates.json",
                        [run |-> tag,
                         val |-> [base |-> f6[base].files["sample.json"].val,
                                  new |-> s]])
              ELSE f6
    IN  [new |-> f7[<<i, "new">>], base |-> f7[<<i, "base">>]]

\* the directory that k runs of common, one after the other, each measuring
\* the steady sample, leave behind
RECURSIVE AfterRuns(_, _)
AfterRuns(k, i) ==
    IF k = 0 THEN NoDir0
    ELSE SoloRun(AfterRuns(k - 1, i), i, k, SampleOf(FALSE))

\* two benchmark programs of one benchmark each, with ids <<1, 0>> and
\* <<2, 0>>, started at the same time in one working directory; each finds
\* the directory that up to PriorRuns earlier runs of it have left
InitConc ==
    /\ pc = [p \in Procs |-> "idle"]
    /\ id = [p \in Procs |-> TopId(p)]
    /\ todo = [p \in Procs |-> <<>>]
    /\ data = [p \in Procs |-> NoData]
    /\ avg_times = [p \in Procs |-> <<>>]
    /\ labeled_sample = [p \in Procs |-> NoLabeled]
    /\ slope = [p \in Procs |-> NoSlope]
    /\ distributions = [p \in Procs |-> EmptyMap]
    /\ estimates = [p \in Procs |-> EmptyMap]
    /\ percentiles = [p \in Procs |-> <<>>]
    /\ summarized = [p \in Procs |-> "none"]
    /\ trace = [p \in Procs |-> <<>>]
    /\ measured = [p \in Procs |-> NoData]
    /\ dir0 = [p \in Procs |-> NoDir0]
    /\ aborted = [i \in Ids |-> FALSE]
    /\ started = [p \in Procs |-> MaxRuns - 1]
    /\ ran = [p \in Procs |-> {}]
    /\ failure = [p \in Procs |-> "none"]
    /\ failures = 0
    /\ driver = [p \in Procs |-> "function"]
    /\ plotting \in [Procs -> BOOLEAN]
    /\ \E k \in [Procs -> 0..PriorRuns] :
        LET d == [p \in Procs |-> AfterRuns(k[p], TopId(p))]
        IN  /\ runs = [i \in Ids |-> IF i[2] = 0 THEN k[i[1]] ELSE 0]
            /\ fs = [path \in Paths |->
                        IF path[1][2] # 0 THEN AbsentDir
                        ELSE IF path[2] = "new" THEN d[path[1][1]].new
                        ELSE d[path[1][1]].base]
            /\ curOut = [i \in Ids |-> IF i[2] = 0 THEN d[i[1]].new ELSE AbsentDir]
            /\ prevOut = [i \in Ids |-> IF i[2] = 0 THEN d[i[1]].base ELSE AbsentDir]
NextConc == \E p \in Procs : Start(p) \/ CommonStep(p)
SpecConc == InitConc /\ [][NextConc]_vars

\* ================================================================ claims
\* the statements of common after routine.sample, in source order
CommonOrder ==
    <<"rename_new_dir_to_base", "rmrf", "new_exists", "mv", "avg_times",
      "mkdirp", "outliers", "save_tukey", "plot_pdf", "regression",
      "plot_regression", "estimates", "insert_slope", "plot_abs_distributions",
      "save_sample", "save_estimates", "base_dir_exists", "compare", "return">>
Pos(s) == CHOOSE i \in DOMAIN CommonOrder : CommonOrder[i] = s
InRun(p) == \E i \in DOMAIN CommonOrder : CommonOrder[i] = pc[p]
\* process p is in common, past statement s
Past(p, s) == InRun(p) /\ Pos(pc[p]) > Pos(s)
\* a run of common for id i has begun and has not reached its return
Running(i) == \E p \in Procs : id[p] = i /\ InRun(p) /\ pc[p] # "return"
Called(p, what) == \E n \in DOMAIN trace[p] : trace[p][n] = what
Times(p, what) == Cardinality({n \in DOMAIN trace[p] : trace[p][n] = what})
Artifacts == {"tukey.json", "sample.json", "estimates.json"}
Saves == {"fs::save tukey.json", "fs::save sample.json", "fs::save estimates.json"}
Plots == {"plot::pdf", "plot::regression", "plot::abs_distributions"}
\* a directory holding the three artifacts of run `tag` and of no other run
Complete(dir, tag) ==
    /\ dir.exists
    /\ \A f \in Artifacts : dir.files[f].run = tag
    /\ dir.files["change/estimates.json"].run \in {0, tag}
New(i) == fs[<<i, "new">>]
Base(i) == fs[<<i, "base">>]

\* C1: after any sequence of completed runs of common for one id, starting
\* from an empty directory, new/ holds what the last run wrote and base/ what
\* the run before it wrote; after the first run there is no base/.
C1_NewIsLastBaseIsPrevious ==
    \A i \in Ids :
        (runs[i] >= 1 /\ ~aborted[i] /\ ~Running(i)) =>
            /\ New(i) = curOut[i]
            /\ Complete(New(i), runs[i])
            /\ Base(i) = prevOut[i]
            /\ IF runs[i] = 1 THEN ~Base(i).exists
               ELSE Complete(Base(i), runs[i] - 1)
C1_Witness ==
    \E i \in Ids :
        /\ runs[i] = 2 /\ ~aborted[i] /\ ~Running(i)
        /\ Complete(Base(i), 1) /\ Complete(New(i), 2)
        /\ Base(i).files["sample.json"].val # New(i).files["sample.json"].val

\* C2: when new/ exists as rename_new_dir_to_base is called, with or without
\* a base/, then after the call base/ is exactly what new/ was, and new/ is
\* gone.
C2_PromotionMovesNew ==
    \A p \in Procs :
        (pc[p] \in {"avg_times", "mkdirp"} /\ dir0[p].new.exists) =>
            /\ Base(id[p]) = dir0[p].new
            /\ ~New(id[p]).exists
C2_Witness ==
    \E p \in Procs :
        /\ pc[p] = "avg_times"
        /\ dir0[p].new.exists /\ dir0[p].base.exists
        /\ dir0[p].base # dir0[p].new
        /\ Base(id[p]) = dir0[p].new

\* C3: when there is no new/ as rename_new_dir_to_base is called, the call
\* leaves the benchmark directory as it was: a base/ that exists is kept.
C3_NoNewLeavesUnchanged ==
    \A p \in Procs :
        (pc[p] \in {"avg_times", "mkdirp"} /\ ~dir0[p].new.exists) =>
            /\ Base(id[p]) = dir0[p].base
            /\ New(id[p]) = dir0[p].new

\* C4: in every run of common the promotion is made exactly once and before
\* any artifact is saved: the first save finds new/ empty, and new/ never
\* holds a file of an earlier run while the run writes.
C4_PromotionOnceBeforeWrites ==
    \A p \in Procs :
        InRun(p) =>
            /\ Times(p, "rename_new_dir_to_base") =
                    (IF pc[p] = "rename_new_dir_to_base" THEN 0 ELSE 1)
            /\ \A n \in DOMAIN trace[p] :
                    trace[p][n] \in Saves =>
                        \E m \in 1..(n - 1) : trace[p][m] = "rename_new_dir_to_base"
            /\ pc[p] = "save_tukey" => New(id[p]) = EmptyDir
            /\ Past(p, "mkdirp") =>
                    \A f \in FilesOf(New(id[p])) :
                        New(id[p]).files[f].run = runs[id[p]]
C4_Witness ==
    \E p \in Procs :
        /\ pc[p] = "return"
        /\ dir0[p].new.exists
        /\ FilesOf(New(id[p])) = Files
        /\ runs[id[p]] >= 2

\* C5: compare::common is called in a run exactly when base/sample.json
\* exists after the promotion; a base/ without sample.json does not call it.
C5_CompareIffBaseSample ==
    \A p \in Procs :
        /\ pc[p] = "compare" => HasFile(Base(id[p]), "sample.json")
        /\ pc[p] = "return" =>
            (Called(p, "compare::common") <=> HasFile(Base(id[p]), "sample.json"))

\* C6: a save that fails in one benchmark of a group stops that benchmark
\* only: the driver is handed the failure, goes on, and ends having run the
\* pipeline of every input.
SavePcs == {"save_tukey", "save_sample", "save_estimates"}
C6_SaveFailureSparesSiblings ==
    \A p \in Procs :
        (IsGroup(driver[p]) /\ failure[p] \in SavePcs) =>
            /\ pc[p] # "panicked"
            /\ pc[p] = "finished" => ran[p] = Inputs

\* C7: two runs of common on ids with disjoint directories, interleaved in
\* any way: a step of one run changes nothing outside .criterion/<its id>/,
\* and each run leaves its directory as it does when it runs alone.
C7_Frame ==
    \A p \in Procs :
        pc'[p] # pc[p] =>
            \A path \in Paths \ OwnPaths(id'[p]) : fs'[path] = fs[path]
C7_FinalAsAlone ==
    \A p \in Procs :
        pc[p] = "return" =>
            [new |-> New(id[p]), base |-> Base(id[p])]
                = SoloRun(dir0[p], id[p], runs[id[p]], measured[p])
C7_DistinctIdsIsolated == [][C7_Frame]_vars /\ []C7_FinalAsAlone
C7_Witness ==
    /\ pc[1] = "return"
    /\ pc[2] \in {"rmrf", "mv", "save_sample"}
    /\ dir0[1].base.exists
    /\ dir0[2].base.exists

\* C8: after a full run the Estimates map, as saved to new/estimates.json
\* and as handed to the comparison, and the Distributions map have exactly
\* the keys Mean, Median, MedianAbsDev, StdDev and Slope: four from the
\* bootstrap of estimates(), Slope as regression() returned it.
C8_FiveStatistics ==
    /\ \A p \in Procs :
        Past(p, "insert_slope") =>
            /\ DOMAIN estimates[p] = Statistics
            /\ DOMAIN distributions[p] = Statistics
            /\ estimates[p]["Slope"] = slope[p].estimate
            /\ distributions[p]["Slope"] = slope[p].distribution
            /\ \A k \in Statistics \ {"Slope"} :
                    estimates[p][k].of = avg_times[p]
    /\ \A path \in Paths :
        HasFile(fs[path], "estimates.json") =>
            DOMAIN fs[path].files["estimates.json"].val = Statistics
C8_Witness ==
    \E p \in Procs :
        /\ pc[p] = "return"
        /\ Called(p, "compare::common")
        /\ New(id[p]).files["estimates.json"].val = estimates[p]
        /\ Cardinality(DOMAIN estimates[p]) = 5

\* C9: with plotting Disabled no plot function is called, in a run or in the
\* summary of a group, and the other stages of a run are the same calls in
\* the same order whatever the plotting option is.
Stages ==
    <<"routine.sample", "rename_new_dir_to_base", "fs::mkdirp",
      "tukey::classify", "report::outliers", "fs::save tukey.json",
      "regression", "report::regression", "estimates", "report::abs",
      "fs::save sample.json", "fs::save estimates.json">>
RECURSIVE NonPlot(_)
NonPlot(t) ==
    IF t = <<>> THEN <<>>
    ELSE (IF Head(t) \in Plots THEN <<>> ELSE <<Head(t)>>) \o NonPlot(Tail(t))
C9_DisabledSkipsPlots ==
    \A p \in Procs :
        /\ ~plotting[p] =>
            /\ \A n \in DOMAIN trace[p] : trace[p][n] \notin Plots
            /\ summarized[p] # "plot::summarize"
        /\ pc[p] = "return" =>
            NonPlot(trace[p]) =
                Stages \o (IF Base(id[p]).exists THEN <<"compare::common">> ELSE <<>>)
C9_Witness ==
    \E p \in Procs :
        /\ ~plotting[p]
        /\ pc[p] = "finished"
        /\ summarized[p] = "skipped"
        /\ Len(trace[p]) = Len(Stages) + 1

\* C10: whatever labels the classifier gives, no measurement is dropped or
\* changed: the regression gets every (iters, elapsed) pair, the estimators
\* the whole avg_times sample, and sample.json and the comparison the whole
\* sample.
FullAvg(p) == AvgTimes(measured[p][1], measured[p][2])
C10_OutliersAreKept ==
    \A p \in Procs :
        /\ InRun(p) => data[p] = measured[p] /\ Len(measured[p][1]) = SampleLen
        /\ Past(p, "avg_times") => avg_times[p] = FullAvg(p)
        /\ Past(p, "outliers") => labeled_sample[p].sample = FullAvg(p)
        /\ Past(p, "regression") =>
            /\ slope[p].estimate.of = measured[p]
            /\ slope[p].distribution.of = measured[p]
        /\ Past(p, "estimates") =>
            \A k \in Statistics \ {"Slope"} :
                /\ estimates[p][k].of = FullAvg(p)
                /\ distributions[p][k].of = FullAvg(p)
        /\ Past(p, "save_sample") =>
            New(id[p]).files["sample.json"].val = measured[p]
        /\ (pc[p] = "return" /\ HasFile(New(id[p]), "change/estimates.json")) =>
            New(id[p]).files["change/estimates.json"].val.new = measured[p]
C10_Witness ==
    \E p \in Procs :
        /\ pc[p] = "return"
        /\ Count(labeled_sample[p])[3] < SampleLen
        /\ HasFile(New(id[p]), "change/estimates.json")
        /\ Len(estimates[p]["Mean"].of) = SampleLen

====
